---- MODULE Spec2Model ----
(***************************************************************************)
(* Model of metriki-core's MetricsRegistry (src/metriki-core/src/          *)
(* registry.rs): the RwLock-guarded pair of maps (static metrics, metrics  *)
(* sets), the unguarded filter, the four get-or-create accessors, gauge,   *)
(* snapshots, set_filter and register/unregister_metrics_set, run by       *)
(* several threads that interleave at lock acquisitions.                   *)
(***************************************************************************)
EXTENDS Integers, Sequences, FiniteSets, TLC

VARIABLES
    maps,       \* heap of HashMap<String, Metric>: the registry's and the snapshots'
    mset,       \* Inner.mset: registration name -> metrics set (0: no entry)
    msetOrder,  \* iteration order of Inner.mset (its registered keys, in table order)
    filter,     \* MetricsRegistry.filter
    readers,    \* threads holding a read guard of the RwLock
    writer,     \* thread holding the write guard of the RwLock (0: none)
    pc,         \* per thread: where it is inside its current call
    call,       \* per thread: the call it is running and its arguments
    ret,        \* per thread: the instrument handle its accessor returned (0: none)
    instr,      \* heap of instruments created through the registry, by id
    snapshot,   \* per thread: the map a snapshots() call returned to it (NoMap: none)
    prev,       \* per thread: kind, name and instrument of its latest accessor result
    regLog,     \* per registration name: the set last registered and whether it still is
    poisoned,   \* the RwLock's poison flag
    calls       \* number of calls started so far

vars == <<maps, mset, msetOrder, filter, readers, writer, pc, call, ret, instr,
          snapshot, prev, regLog, poisoned, calls>>

---------------------------------------------------------------------------
(* The threads that share the registry, and the bound on the calls they make *)
Threads == {1, 2}
MaxCalls == 3

---------------------------------------------------------------------------
(* Names, kinds, metrics *)

\* A name is the sequence of its dot-separated segments: l1.tomcat.request is
\* <<"l1", "tomcat">> (the trailing segment is the same for all and left out).
StaticNames == {<<"l1", "tomcat">>, <<"l2", "tomcat">>}
SetNames == {<<"l1", "jvm">>, <<"l2", "tomcat">>}
RegNames == {<<"s1">>, <<"s2">>}
Keys == StaticNames \cup SetNames \cup RegNames

AccessorKinds == {"Counter", "Meter", "Histogram", "Timer"}
Kinds == AccessorKinds \cup {"Gauge"}

\* Option<Metric>: a Metric is its variant tag and the Arc it wraps; None is NoMetric.
NoMetric == [kind |-> "None", id |-> 0]
MetricOf(k, i) == [kind |-> k, id |-> i]

EmptyMap == [k \in Keys |-> NoMetric]
Insert(m, k, v) == [m EXCEPT ![k] = v]
KeysOf(m) == {k \in Keys : m[k] # NoMetric}

\* The heap of maps: the registry's static map and one result map per thread.
StaticMap == 0
NoMap == -1
ResultMap(t) == t
MapIds == {StaticMap} \cup {ResultMap(t) : t \in Threads}

metrics == maps[StaticMap]

\* Metrics sets: two implementations of MetricsSet, with what get_all() returns.
NoSet == 0
Providers == {1, 2}
GetAll(p) ==
    IF p = 1
    THEN Insert(Insert(EmptyMap, <<"l1", "jvm">>, MetricOf("Counter", 101)),
                <<"l2", "tomcat">>, MetricOf("Meter", 102))
    ELSE Insert(EmptyMap, <<"l1", "jvm">>, MetricOf("Meter", 103))

\* Gauge functions handed to gauge().
GaugeFns == {1, 2}

\* Filters: none, the name filter of test_metrics_filter, and a filter on the metric.
Filters == {"None", "NameFilter", "CounterFilter"}
Accept(f, k, v) ==
    CASE f = "None" -> TRUE
      [] f = "NameFilter" -> k[1] = "l1"
      [] f = "CounterFilter" -> v.kind = "Counter"

NoCall == [op |-> "none", name |-> <<>>, arg |-> 0]
NoPrev == [kind |-> "None", name |-> <<>>, id |-> 0]
\* Log entry of a registration name: the set last registered under it, whether it
\* is still registered, its rank among the registrations (a later one has a
\* higher rank), and the set that registration replaced (NoSet: none).
NoReg == [set |-> NoSet, live |-> FALSE, seq |-> 0, old |-> NoSet]

---------------------------------------------------------------------------
(* RwLock *)

CanRead == writer = 0

\* A write lock that does not wait for the readers to leave.
CanWriteDespiteReaders == writer = 0

CanWrite == writer = 0 /\ readers = {}

\* An unwrap that recovers the guard of a poisoned lock (PoisonError::into_inner).
UnwrapIntoInner(p) == "ok"

\* .unwrap() of the LockResult that read() and write() return: a poisoned lock
\* hands back Err(PoisonError), and unwrap panics on it.
Unwrap(p) == IF p THEN "panic" ELSE "ok"

\* A lock that any panic under a guard poisons (as a Mutex would).
PoisonOnAnyPanic(p, guard) == TRUE

\* The poison flag after a panic unwinds through a guard: a write guard sets it,
\* a read guard leaves it as it is.
PoisonOnPanic(p, guard) == IF guard = "write" THEN TRUE ELSE p

---------------------------------------------------------------------------
(* A thread that is in no call starts its next call, while calls are left. *)
Begin(t) ==
    /\ pc[t] = "idle"
    /\ calls < MaxCalls
    /\ calls' = calls + 1

\* The panic of unwrap on a poisoned lock: the call of thread t fails before it
\* has read or written anything.
LockPoisoned(t) ==
    /\ pc' = [pc EXCEPT ![t] = "poisoned"]
    /\ call' = [call EXCEPT ![t] = NoCall]
    /\ UNCHANGED <<maps, mset, msetOrder, filter, readers, writer, ret, instr,
                   snapshot, prev, regLog, poisoned>>

\* A panic of thread t inside a write section (in K::new(), in Gauge::new(func),
\* in the drop of a value the insert or remove replaced): the write guard is
\* dropped while the thread unwinds, which releases and poisons the lock.
Crash(t) ==
    /\ writer = t
    /\ writer' = 0
    /\ poisoned' = PoisonOnPanic(poisoned, "write")
    /\ pc' = [pc EXCEPT ![t] = "crashed"]
    /\ call' = [call EXCEPT ![t] = NoCall]
    /\ UNCHANGED <<maps, mset, msetOrder, filter, readers, ret, instr, snapshot,
                   prev, regLog, calls>>

---------------------------------------------------------------------------
Init ==
    /\ maps = [i \in MapIds |-> EmptyMap]
    /\ mset = [r \in RegNames |-> NoSet]
    /\ msetOrder = <<>>
    /\ filter = "None"
    /\ readers = {}
    /\ writer = 0
    /\ pc = [t \in Threads |-> "idle"]
    /\ call = [t \in Threads |-> NoCall]
    /\ ret = [t \in Threads |-> 0]
    /\ instr = <<>>
    /\ snapshot = [t \in Threads |-> NoMap]
    /\ prev = [t \in Threads |-> NoPrev]
    /\ regLog = [r \in RegNames |-> NoReg]
    /\ poisoned = FALSE
    /\ calls = 0

---------------------------------------------------------------------------
(* Get-or-create accessors: meter, histogram, counter, timer *)

\* let inner = self.inner.read().unwrap();
AccessorRead(t, K, n) ==
    /\ Begin(t)
    /\ CanRead
    /\ IF Unwrap(poisoned) = "panic"
       THEN LockPoisoned(t)
       ELSE /\ readers' = readers \cup {t}
            /\ pc' = [pc EXCEPT ![t] = "lookup"]
            /\ call' = [call EXCEPT ![t] = [op |-> K, name |-> n, arg |-> 0]]
            /\ ret' = [ret EXCEPT ![t] = 0]
            /\ prev' = [prev EXCEPT ![t] = IF @.kind = K /\ @.name = n THEN @ ELSE NoPrev]
            /\ UNCHANGED <<maps, mset, msetOrder, filter, writer, instr, snapshot, regLog, poisoned>>

\* A lookup that never finds the entry: every call goes on to create.
LookupNeverFinds(m, K, n) == "miss"

\* A lookup whose match arm for the other variants falls through to creation.
LookupMismatchMisses(m, K, n) ==
    IF m[n] # NoMetric /\ m[n].kind = K THEN "hit" ELSE "miss"

\* inner.metrics.get(name).map(|metric| match metric { K(ref m) => m.clone(), _ => panic!() })
\* "hit", "miss" or "panic"
Lookup(m, K, n) ==
    IF m[n] = NoMetric THEN "miss"
    ELSE IF m[n].kind = K THEN "hit"
    ELSE "panic"

\* A read guard that is still held after the block it was taken in.
KeepReadGuard(rs, t) == rs

\* The read guard `inner` goes out of scope at the end of the lookup block.
DropReadGuard(rs, t) == rs \ {t}

\* The lookup under the read guard; the guard is dropped at the end of the block,
\* also when the closure panics (a read guard does not poison the lock).
AccessorLookup(t, K) ==
    /\ pc[t] = "lookup"
    /\ call[t].op = K
    /\ LET n == call[t].name
           r == Lookup(metrics, K, n)
       IN  /\ readers' = DropReadGuard(readers, t)
           /\ poisoned' = IF r = "panic" THEN PoisonOnPanic(poisoned, "read") ELSE poisoned
           /\ IF r = "hit"
              THEN /\ ret' = [ret EXCEPT ![t] = metrics[n].id]
                   /\ pc' = [pc EXCEPT ![t] = "ret"]
                   /\ prev' = [prev EXCEPT ![t] =
                                   [kind |-> K, name |-> n, id |-> metrics[n].id]]
                   /\ call' = call
              ELSE IF r = "miss"
              THEN /\ pc' = [pc EXCEPT ![t] = "miss"]
                   /\ UNCHANGED <<ret, prev, call>>
              ELSE /\ pc' = [pc EXCEPT ![t] = "panicked"]
                   /\ call' = [call EXCEPT ![t] = NoCall]
                   /\ UNCHANGED <<ret, prev>>
    /\ UNCHANGED <<maps, mset, msetOrder, filter, writer, instr, snapshot, regLog,
                   calls>>

\* let mut inner_write = self.inner.write().unwrap();
AccessorWrite(t, K) ==
    /\ pc[t] = "miss"
    /\ call[t].op = K
    /\ CanWrite
    /\ IF Unwrap(poisoned) = "panic"
       THEN LockPoisoned(t) /\ calls' = calls
       ELSE /\ writer' = t
            /\ pc' = [pc EXCEPT ![t] = "insert"]
            /\ UNCHANGED <<maps, mset, msetOrder, filter, readers, call, ret, instr,
                           snapshot, prev, calls, regLog, poisoned>>

\* A write to the static entry of name n: what other threads remembered of it is stale.
Forget(p, t, n) == [u \in Threads |-> IF u # t /\ p[u].name = n THEN NoPrev ELSE p[u]]

\* An insert that keeps the entry a racing thread has put there meanwhile.
AccessorStoreIfAbsent(m, n, v) == IF m[n] = NoMetric THEN Insert(m, n, v) ELSE m

\* inner_write.metrics.insert(name.to_owned(), Metric::K(k.clone())), without a
\* second look at the entry: the value is overwritten
AccessorStore(m, n, v) == Insert(m, n, v)

\* let k = Arc::new(K::new()); inner_write.metrics.insert(name.to_owned(), Metric::K(k.clone())); k
AccessorInsert(t, K) ==
    /\ pc[t] = "insert"
    /\ call[t].op = K
    /\ LET n == call[t].name
           i == Len(instr) + 1
       IN  /\ instr' = Append(instr, [kind |-> K, name |-> n, fn |-> 0, count |-> 0])
           /\ maps' = [maps EXCEPT ![StaticMap] = AccessorStore(@, n, MetricOf(K, i))]
           /\ ret' = [ret EXCEPT ![t] = i]
           /\ prev' = [Forget(prev, t, n) EXCEPT ![t] = [kind |-> K, name |-> n, id |-> i]]
    /\ writer' = 0
    /\ pc' = [pc EXCEPT ![t] = "ret"]
    /\ UNCHANGED <<mset, msetOrder, filter, readers, call, snapshot, calls, regLog, poisoned>>

meter(t) ==
    \/ \E n \in StaticNames : AccessorRead(t, "Meter", n)
    \/ AccessorLookup(t, "Meter")
    \/ AccessorWrite(t, "Meter")
    \/ AccessorInsert(t, "Meter")

histogram(t) ==
    \/ \E n \in StaticNames : AccessorRead(t, "Histogram", n)
    \/ AccessorLookup(t, "Histogram")
    \/ AccessorWrite(t, "Histogram")
    \/ AccessorInsert(t, "Histogram")

counter(t) ==
    \/ \E n \in StaticNames : AccessorRead(t, "Counter", n)
    \/ AccessorLookup(t, "Counter")
    \/ AccessorWrite(t, "Counter")
    \/ AccessorInsert(t, "Counter")

timer(t) ==
    \/ \E n \in StaticNames : AccessorRead(t, "Timer", n)
    \/ AccessorLookup(t, "Timer")
    \/ AccessorWrite(t, "Timer")
    \/ AccessorInsert(t, "Timer")

\* The caller marks once through the handle it got: registry.meter(name).mark()
Mark(t) ==
    /\ pc[t] = "ret"
    /\ instr' = [instr EXCEPT ![ret[t]].count = @ + 1]
    /\ pc' = [pc EXCEPT ![t] = "idle"]
    /\ call' = [call EXCEPT ![t] = NoCall]
    /\ ret' = [ret EXCEPT ![t] = 0]
    /\ UNCHANGED <<maps, mset, msetOrder, filter, readers, writer, snapshot, prev,
                   regLog, calls, poisoned>>

---------------------------------------------------------------------------
(* gauge *)

\* let mut inner = self.inner.write().unwrap();
GaugeWrite(t, n, f) ==
    /\ Begin(t)
    /\ CanWrite
    /\ IF Unwrap(poisoned) = "panic"
       THEN LockPoisoned(t)
       ELSE /\ writer' = t
            /\ pc' = [pc EXCEPT ![t] = "gauge"]
            /\ call' = [call EXCEPT ![t] = [op |-> "Gauge", name |-> n, arg |-> f]]
            /\ prev' = [prev EXCEPT ![t] = NoPrev]
            /\ UNCHANGED <<maps, mset, msetOrder, filter, readers, ret, instr, snapshot, regLog, poisoned>>

\* A gauge that keeps the entry already there (entry(name).or_insert(..)).
GaugeStoreIfAbsent(m, n, g) == IF m[n] = NoMetric THEN Insert(m, n, g) ELSE m

\* A gauge that clears an entry of another kind instead of replacing it.
GaugeStoreDropsOthers(m, n, g) ==
    IF m[n] # NoMetric /\ m[n].kind # "Gauge" THEN Insert(m, n, NoMetric) ELSE Insert(m, n, g)

\* inner.metrics.insert(name.to_owned(), Metric::Gauge(..)): the entry is overwritten
GaugeStore(m, n, g) == Insert(m, n, g)

\* inner.metrics.insert(name.to_owned(), Metric::Gauge(Arc::new(Gauge::new(func))));
GaugeInsert(t) ==
    /\ pc[t] = "gauge"
    /\ LET n == call[t].name
           i == Len(instr) + 1
       IN  /\ instr' = Append(instr, [kind |-> "Gauge", name |-> n, fn |-> call[t].arg,
                                      count |-> 0])
           /\ maps' = [maps EXCEPT ![StaticMap] = GaugeStore(@, n, MetricOf("Gauge", i))]
           /\ prev' = Forget(prev, t, n)
    /\ writer' = 0
    /\ pc' = [pc EXCEPT ![t] = "idle"]
    /\ call' = [call EXCEPT ![t] = NoCall]
    /\ UNCHANGED <<mset, msetOrder, filter, readers, ret, snapshot, calls, regLog, poisoned>>

gauge(t) ==
    \/ \E n \in StaticNames, f \in GaugeFns : GaugeWrite(t, n, f)
    \/ GaugeInsert(t)

---------------------------------------------------------------------------
(* snapshots *)

\* for (k, v) in inner.metrics.iter() { if filter...accept(k, v) { results.insert(k, v.clone()) } }
FoldStatic(res, src, f) ==
    [k \in Keys |-> IF src[k] # NoMetric /\ Accept(f, k, src[k]) THEN src[k] ELSE res[k]]

\* A second loop that forgets the filter.
FoldSetUnfiltered(res, src, f) ==
    [k \in Keys |-> IF src[k] # NoMetric THEN src[k] ELSE res[k]]

\* A second loop that keeps the entry the result already has (entry(k).or_insert(v)).
FoldSetKeepsExisting(res, src, f) ==
    [k \in Keys |-> IF res[k] = NoMetric /\ src[k] # NoMetric /\ Accept(f, k, src[k])
                    THEN src[k] ELSE res[k]]

\* for (k, v) in metrics.iter() { if filter...accept(k, v) { results.insert(k, v.clone()) } }
FoldSet(res, src, f) ==
    [k \in Keys |-> IF src[k] # NoMetric /\ Accept(f, k, src[k]) THEN src[k] ELSE res[k]]

\* A loop over inner.mset.iter() that also files each set under its registration name.
RECURSIVE FoldSetsKeyed(_, _, _, _)
FoldSetsKeyed(res, order, sets, f) ==
    IF order = <<>> THEN res
    ELSE FoldSetsKeyed(Insert(FoldSet(res, GetAll(sets[Head(order)]), f), Head(order),
                              MetricOf("Gauge", 0)),
                       Tail(order), sets, f)

\* A loop over the sets that walks the table backwards.
RECURSIVE FoldSetsReversed(_, _, _, _)
FoldSetsReversed(res, order, sets, f) ==
    IF order = <<>> THEN res
    ELSE FoldSet(FoldSetsReversed(res, Tail(order), sets, f), GetAll(sets[Head(order)]), f)

\* for metrics_set in inner.mset.values() { let metrics = metrics_set.get_all(); ... },
\* in the table's iteration order
RECURSIVE FoldSets(_, _, _, _)
FoldSets(res, order, sets, f) ==
    IF order = <<>> THEN res
    ELSE FoldSets(FoldSet(res, GetAll(sets[Head(order)]), f), Tail(order), sets, f)

\* let inner = self.inner.read().unwrap(); let mut results = HashMap::new();
\* for (k, v) in inner.metrics.iter() { ... }
SnapshotsStatic(t) ==
    /\ Begin(t)
    /\ CanRead
    /\ IF Unwrap(poisoned) = "panic"
       THEN LockPoisoned(t)
       ELSE /\ readers' = readers \cup {t}
            /\ snapshot' = [snapshot EXCEPT ![t] = NoMap]
            /\ maps' = [maps EXCEPT ![ResultMap(t)] = FoldStatic(EmptyMap, metrics, filter)]
            /\ pc' = [pc EXCEPT ![t] = "snap_sets"]
            /\ call' = [call EXCEPT ![t] = [op |-> "snapshots", name |-> <<>>, arg |-> 0]]
            /\ prev' = [prev EXCEPT ![t] = NoPrev]
            /\ UNCHANGED <<mset, msetOrder, filter, writer, ret, instr, regLog, poisoned>>

SnapshotsSets(t) ==
    /\ pc[t] = "snap_sets"
    /\ maps' = [maps EXCEPT ![ResultMap(t)] = FoldSets(@, msetOrder, mset, filter)]
    /\ pc' = [pc EXCEPT ![t] = "snap_ret"]
    /\ UNCHANGED <<mset, msetOrder, filter, readers, writer, call, ret, instr,
                   snapshot, prev, calls, regLog, poisoned>>

\* A snapshot that hands out the registry's own map.
ReturnedLive(t) == StaticMap

\* results
Returned(t) == ResultMap(t)

SnapshotsReturn(t) ==
    /\ pc[t] = "snap_ret"
    /\ readers' = readers \ {t}
    /\ snapshot' = [snapshot EXCEPT ![t] = Returned(t)]
    /\ pc' = [pc EXCEPT ![t] = "idle"]
    /\ call' = [call EXCEPT ![t] = NoCall]
    /\ UNCHANGED <<maps, mset, msetOrder, filter, writer, ret, instr, prev, regLog,
                   calls, poisoned>>

snapshots(t) ==
    \/ SnapshotsStatic(t)
    \/ SnapshotsSets(t)
    \/ SnapshotsReturn(t)

---------------------------------------------------------------------------
(* set_filter: takes &mut self, so no other call is in progress *)

set_filter(f) ==
    /\ \A t \in Threads : pc[t] \in {"idle", "ret", "panicked", "poisoned", "crashed"}
    /\ calls < MaxCalls
    /\ filter' = f
    /\ calls' = calls + 1
    /\ UNCHANGED <<maps, mset, msetOrder, readers, writer, pc, call, ret, instr,
                   snapshot, prev, regLog, poisoned>>

---------------------------------------------------------------------------
(* register_metrics_set, unregister_metrics_set *)

RegisterWrite(t, r, p) ==
    /\ Begin(t)
    /\ CanWrite
    /\ IF Unwrap(poisoned) = "panic"
       THEN LockPoisoned(t)
       ELSE /\ writer' = t
            /\ pc' = [pc EXCEPT ![t] = "register"]
            /\ call' = [call EXCEPT ![t] = [op |-> "register", name |-> r, arg |-> p]]
            /\ prev' = [prev EXCEPT ![t] = NoPrev]
            /\ UNCHANGED <<maps, mset, msetOrder, filter, readers, ret, instr, snapshot, regLog, poisoned>>

Max(S) == CHOOSE x \in S : \A y \in S : y <= x
InsertAt(s, i, e) == SubSeq(s, 1, i) \o <<e>> \o SubSeq(s, i + 1, Len(s))
Remove(s, e) == SelectSeq(s, LAMBDA x : x # e)

\* An insert that keeps the set already registered under the name.
MsetInsertKeepsFirst(sets, order, r, p) ==
    IF sets[r] # NoSet THEN {[sets |-> sets, order |-> order]}
    ELSE {[sets |-> [sets EXCEPT ![r] = p], order |-> InsertAt(order, i, r)] :
             i \in 0..Len(order)}

\* inner.mset.insert(name, mset): the tables insert can leave. The value of a key
\* already there is replaced in place; a new key may land anywhere in the
\* iteration order (it depends on the hash of the key).
MsetInsert(sets, order, r, p) ==
    {[sets |-> [sets EXCEPT ![r] = p], order |-> o] :
        o \in IF sets[r] # NoSet THEN {order}
              ELSE {InsertAt(order, i, r) : i \in 0..Len(order)}}

\* A remove that empties the table (inner.mset.clear()).
MsetRemoveAll(sets, order, r) == [sets |-> [q \in RegNames |-> NoSet], order |-> <<>>]

\* A remove that leaves the table as it is.
MsetRemoveNothing(sets, order, r) == [sets |-> sets, order |-> order]

\* inner.mset.remove(name): the table remove leaves
MsetRemove(sets, order, r) ==
    [sets |-> [sets EXCEPT ![r] = NoSet], order |-> Remove(order, r)]

\* inner.mset.insert(name.to_owned(), mset);
RegisterInsert(t) ==
    /\ pc[t] = "register"
    /\ LET r == call[t].name
       IN  /\ \E tab \in MsetInsert(mset, msetOrder, r, call[t].arg) :
                  /\ mset' = tab.sets
                  /\ msetOrder' = tab.order
           /\ regLog' = [regLog EXCEPT ![r] =
                             [set |-> call[t].arg, live |-> TRUE,
                              seq |-> 1 + Max({regLog[q].seq : q \in RegNames}),
                              old |-> mset[r]]]
    /\ writer' = 0
    /\ pc' = [pc EXCEPT ![t] = "idle"]
    /\ call' = [call EXCEPT ![t] = NoCall]
    /\ UNCHANGED <<maps, filter, readers, ret, instr, snapshot, prev, calls, poisoned>>

register_metrics_set(t) ==
    \/ \E r \in RegNames, p \in Providers : RegisterWrite(t, r, p)
    \/ RegisterInsert(t)

UnregisterWrite(t, r) ==
    /\ Begin(t)
    /\ CanWrite
    /\ IF Unwrap(poisoned) = "panic"
       THEN LockPoisoned(t)
       ELSE /\ writer' = t
            /\ pc' = [pc EXCEPT ![t] = "unregister"]
            /\ call' = [call EXCEPT ![t] = [op |-> "unregister", name |-> r, arg |-> 0]]
            /\ prev' = [prev EXCEPT ![t] = NoPrev]
            /\ UNCHANGED <<maps, mset, msetOrder, filter, readers, ret, instr, snapshot, regLog, poisoned>>

\* inner.mset.remove(name);
UnregisterRemove(t) ==
    /\ pc[t] = "unregister"
    /\ LET r == call[t].name
           tab == MsetRemove(mset, msetOrder, r)
       IN  /\ mset' = tab.sets
           /\ msetOrder' = tab.order
           /\ regLog' = [regLog EXCEPT ![r].live = FALSE, ![r].seq = 0]
    /\ writer' = 0
    /\ pc' = [pc EXCEPT ![t] = "idle"]
    /\ call' = [call EXCEPT ![t] = NoCall]
    /\ UNCHANGED <<maps, filter, readers, ret, instr, snapshot, prev, calls, poisoned>>

unregister_metrics_set(t) ==
    \/ \E r \in RegNames : UnregisterWrite(t, r)
    \/ UnregisterRemove(t)

---------------------------------------------------------------------------
Next ==
    \/ \E t \in Threads : meter(t)
    \/ \E t \in Threads : histogram(t)
    \/ \E t \in Threads : counter(t)
    \/ \E t \in Threads : timer(t)
    \/ \E t \in Threads : Mark(t)
    \/ \E t \in Threads : gauge(t)
    \/ \E t \in Threads : snapshots(t)
    \/ \E f \in Filters : set_filter(f)
    \/ \E t \in Threads : register_metrics_set(t)
    \/ \E t \in Threads : unregister_metrics_set(t)
    \/ \E t \in Threads : Crash(t)

Spec == Init /\ [][Next]_vars

\* What thread t does next inside the call it has started. A thread inside a
\* call keeps running, and the lock lets a waiting thread in once it is free.
Continue(t) ==
    \/ \E K \in AccessorKinds :
          AccessorLookup(t, K) \/ AccessorWrite(t, K) \/ AccessorInsert(t, K)
    \/ GaugeInsert(t)
    \/ SnapshotsSets(t)
    \/ SnapshotsReturn(t)
    \/ RegisterInsert(t)
    \/ UnregisterRemove(t)

FairSpec == Spec /\ \A t \in Threads : WF_vars(Continue(t))

---------------------------------------------------------------------------
(* Properties *)

Ids == 1..Len(instr)
Results(t) == maps[ResultMap(t)]
Entered(t) == pc[t] = "lookup"

\* The metric a registered set offers under name n (NoMetric: none).
Offer(r, n) == IF mset[r] = NoSet THEN NoMetric ELSE GetAll(mset[r])[n]
\* The same, going by the register and unregister calls that completed.
LoggedOffer(r, n) ==
    IF regLog[r].live THEN GetAll(regLog[r].set)[n] ELSE NoMetric

\* The gauge the latest gauge(n, f) call created (0: none).
LatestGauge(n) ==
    LET G == {i \in Ids : instr[i].kind = "Gauge" /\ instr[i].name = n}
    IN  IF G = {} THEN 0 ELSE CHOOSE i \in G : \A j \in G : j <= i

\* C1: concurrent accessor calls for a name with no entry create exactly one
\* instrument for the name and all get a handle to it, so no mark made through
\* a returned handle is lost: the instrument bound to the name carries them all.
C1_ConcurrentCallersShareOneInstrument ==
    /\ \A i, j \in Ids :
          (/\ instr[i].kind # "Gauge"
           /\ instr[j].kind # "Gauge"
           /\ instr[i].name = instr[j].name) => i = j
    /\ \A i \in Ids :
          (/\ instr[i].kind # "Gauge"
           /\ instr[i].count > 0
           /\ metrics[instr[i].name].kind = instr[i].kind)
              => metrics[instr[i].name].id = i

\* C2: the second of two successive calls of the same accessor with the same
\* name (no write to the name's entry took effect since the first) finds the
\* entry, creates nothing and returns the instrument the first one returned;
\* a mark made through the second handle is counted on that instrument.
C2_SecondCallReturnsSameInstrument ==
    [][\A t \in Threads :
        /\ (Entered(t) /\ ~Entered(t)' /\ prev[t] # NoPrev)
              => /\ pc'[t] = "ret"
                 /\ ret'[t] = prev[t].id
                 /\ instr' = instr
                 /\ metrics' = metrics
        /\ (pc[t] = "ret" /\ pc'[t] = "idle" /\ prev[t] # NoPrev)
              => instr'[prev[t].id].count = instr[prev[t].id].count + 1]_vars

\* A thread made two calls of one accessor with one name, nothing else was called,
\* and the one instrument there is has both marks.
C2_Witness ==
    \E t \in Threads :
        /\ calls = 2
        /\ pc[t] = "idle"
        /\ prev[t] # NoPrev
        /\ \A u \in Threads \ {t} : prev[u] = NoPrev /\ pc[u] = "idle"
        /\ Len(instr) = 1
        /\ instr[prev[t].id].count = 2

\* C3: an accessor for kind K that finds the name bound to another kind (Gauge
\* included) panics: it returns no handle, creates no instrument and leaves the
\* entry as it is.
C3_KindMismatchPanics ==
    [][\A t \in Threads :
        (/\ Entered(t) /\ ~Entered(t)'
         /\ metrics[call[t].name] # NoMetric
         /\ metrics[call[t].name].kind # call[t].op)
            => /\ pc'[t] = "panicked"
               /\ ret'[t] = 0
               /\ instr' = instr
               /\ maps' = maps]_vars

\* A thread panicked on a name that is bound.
C3_Witness ==
    \E t \in Threads : pc[t] = "panicked" /\ KeysOf(metrics) # {}

\* C4: once a name is bound in the static map its entry stays as it is; the one
\* replacement there is puts a Gauge in the place of a Gauge.
C4_KindBindingStable ==
    [][\A n \in Keys :
        metrics[n] # NoMetric
            => \/ metrics'[n] = metrics[n]
               \/ (metrics[n].kind = "Gauge" /\ metrics'[n].kind = "Gauge")]_vars

\* C5: gauge(name, f) binds name to a new Gauge of f whatever was bound before
\* and never raises KindMismatch (only a crash inside its write section keeps it
\* from returning); a snapshot taken after gauge(name, f2) never holds an older
\* gauge of the name, and holds the gauge of f2 under name for as long as that
\* is the static entry (the filter accepting it and no metrics set offering an
\* accepted metric of the same name).
C5_GaugeReplaces ==
    /\ [][\A t \in Threads :
            (pc[t] = "gauge" /\ pc'[t] \notin {"gauge", "crashed"})
                => /\ pc'[t] = "idle"
                   /\ Len(instr') = Len(instr) + 1
                   /\ metrics'[call[t].name] = MetricOf("Gauge", Len(instr'))
                   /\ instr'[Len(instr')].fn = call[t].arg]_vars
    /\ [](\A t \in Threads : pc[t] = "snap_ret" =>
            \A n \in Keys :
                /\ Results(t)[n].kind = "Gauge" => Results(t)[n].id = LatestGauge(n)
                /\ (/\ LatestGauge(n) # 0
                    /\ metrics[n].kind = "Gauge"
                    /\ Accept(filter, n, metrics[n])
                    /\ \A r \in RegNames :
                          Offer(r, n) = NoMetric \/ ~Accept(filter, n, Offer(r, n)))
                      => Results(t)[n] = MetricOf("Gauge", LatestGauge(n)))

\* A snapshot, taken after two gauge calls for one name, that holds the second gauge.
C5_Witness ==
    \E t \in Threads, n \in Keys :
        /\ pc[t] = "snap_ret"
        /\ Len(instr) = 2
        /\ instr[1].kind = "Gauge" /\ instr[1].name = n /\ instr[1].fn = 1
        /\ instr[2].kind = "Gauge" /\ instr[2].name = n /\ instr[2].fn = 2
        /\ Results(t)[n] = MetricOf("Gauge", 2)

\* C6: with a filter set, the keys of a snapshot are the names under which the
\* static map or a registered metrics set holds a metric the filter accepts, and
\* every pair in the snapshot is one the filter accepts.
C6_FilteredSnapshot ==
    \A t \in Threads :
        (pc[t] = "snap_ret" /\ filter # "None") =>
            /\ KeysOf(Results(t)) =
                  {n \in Keys :
                      \/ metrics[n] # NoMetric /\ Accept(filter, n, metrics[n])
                      \/ \E r \in RegNames :
                            Offer(r, n) # NoMetric /\ Accept(filter, n, Offer(r, n))}
            /\ \A n \in KeysOf(Results(t)) : Accept(filter, n, Results(t)[n])

\* A snapshot under the name filter that kept a name and left another out.
C6_Witness ==
    \E t \in Threads :
        /\ pc[t] = "snap_ret"
        /\ filter = "NameFilter"
        /\ KeysOf(Results(t)) # {}
        /\ \E n \in Keys \ KeysOf(Results(t)) :
              metrics[n] # NoMetric \/ \E r \in RegNames : Offer(r, n) # NoMetric

\* C7: with no filter set, the keys of a snapshot are the names bound in the
\* static map together with the names the registered metrics sets produce, and
\* no registration name is among them.
C7_UnfilteredSnapshot ==
    \A t \in Threads :
        (pc[t] = "snap_ret" /\ filter = "None") =>
            /\ KeysOf(Results(t)) =
                  KeysOf(metrics) \cup
                  {n \in Keys : \E r \in RegNames : Offer(r, n) # NoMetric}
            /\ KeysOf(Results(t)) \cap RegNames = {}

\* An unfiltered snapshot with a static name and a name that only a set produces.
C7_Witness ==
    \E t \in Threads :
        /\ pc[t] = "snap_ret"
        /\ filter = "None"
        /\ KeysOf(metrics) # {}
        /\ KeysOf(Results(t)) \ KeysOf(metrics) # {}

\* C8: a snapshot holds every accepted name of every metrics set whose latest
\* register call was not followed by an unregister call, and every name it holds
\* is a static name or a name such a set produces: the names of an unregistered
\* set are gone unless they have another source.
C8_MetricsSetLifecycle ==
    \A t \in Threads :
        pc[t] = "snap_ret" =>
            /\ \A r \in RegNames, n \in Keys :
                  (LoggedOffer(r, n) # NoMetric /\ Accept(filter, n, LoggedOffer(r, n)))
                      => n \in KeysOf(Results(t))
            /\ \A n \in KeysOf(Results(t)) :
                  \/ metrics[n] # NoMetric
                  \/ \E r \in RegNames : LoggedOffer(r, n) # NoMetric

\* A snapshot taken after a set was registered and unregistered, without its names.
C8_Witness ==
    \E t \in Threads, r \in RegNames :
        /\ pc[t] = "snap_ret"
        /\ regLog[r].set # NoSet
        /\ ~regLog[r].live
        /\ KeysOf(GetAll(regLog[r].set)) \cap KeysOf(Results(t)) = {}

\* C9: while a snapshots() call runs, what it has read is what the maps hold:
\* after the first loop its result is the filtered static map as it stands, and
\* when it returns its result is the merge of the static map and the metrics
\* sets as both stand at that instant.
C9_SnapshotOfOneInstant ==
    \A t \in Threads :
        /\ pc[t] = "snap_sets" => Results(t) = FoldStatic(EmptyMap, metrics, filter)
        /\ pc[t] = "snap_ret" =>
              Results(t) = FoldSets(FoldStatic(EmptyMap, metrics, filter),
                                    msetOrder, mset, filter)

\* A snapshot between its two loops while another thread waits to insert.
C9_Witness ==
    \E t, u \in Threads :
        /\ pc[t] = "snap_sets"
        /\ pc[u] = "miss"
        /\ KeysOf(Results(t)) # {}

\* C10: the map a snapshots() call returned stays as it was returned, whatever
\* is called on the registry afterwards.
C10_SnapshotDetached ==
    [][\A t \in Threads :
        (snapshot[t] # NoMap /\ snapshot'[t] = snapshot[t])
            => maps'[snapshot[t]] = maps[snapshot[t]]]_vars

\* A returned snapshot maps a name to an instrument the registry has replaced since.
C10_Witness ==
    \E t \in Threads, n \in Keys :
        /\ snapshot[t] # NoMap
        /\ maps[snapshot[t]][n] # NoMetric
        /\ metrics[n] # NoMetric
        /\ maps[snapshot[t]][n] # metrics[n]

\* The registered sets that offer an accepted metric under name n, the one of them
\* the table iterates last, and the one of them that was registered last.
Offering(n) ==
    {r \in RegNames : Offer(r, n) # NoMetric /\ Accept(filter, n, Offer(r, n))}
Pos(r) == CHOOSE i \in 1..Len(msetOrder) : msetOrder[i] = r
IteratedLast(n) == CHOOSE r \in Offering(n) : \A q \in Offering(n) : Pos(q) <= Pos(r)
RegisteredLast(n) ==
    CHOOSE r \in Offering(n) : \A q \in Offering(n) : regLog[q].seq <= regLog[r].seq

\* C11 as stated: when two registered sets offer an accepted metric under one
\* name, the snapshot maps the name to the metric of the set registered later.
C11_LaterRegistrationWins ==
    \A t \in Threads, n \in Keys :
        (pc[t] = "snap_ret" /\ Cardinality(Offering(n)) >= 2)
            => Results(t)[n] = Offer(RegisteredLast(n), n)

\* C11: when registered sets offer an accepted metric under one name, the
\* snapshot maps the name to the metric of the set the table iterates last,
\* which need not be the set registered last; the iteration order changes only
\* when register_metrics_set or unregister_metrics_set changes the table, so
\* until then every snapshot resolves the name the same way.
C11_LastIteratedWins ==
    /\ [](\A t \in Threads, n \in Keys :
            (pc[t] = "snap_ret" /\ Offering(n) # {})
                => Results(t)[n] = Offer(IteratedLast(n), n))
    /\ [][msetOrder' # msetOrder
            => \E t \in Threads : pc[t] \in {"register", "unregister"} /\ pc'[t] = "idle"]_vars

\* A snapshot that maps a name two sets offer to the metric of the set registered first.
C11_Witness ==
    \E t \in Threads, n \in Keys :
        /\ pc[t] = "snap_ret"
        /\ Cardinality(Offering(n)) = 2
        /\ IteratedLast(n) # RegisteredLast(n)
        /\ Results(t)[n] = Offer(IteratedLast(n), n)
        /\ Results(t)[n] # Offer(RegisteredLast(n), n)

\* C12: when the static map and a registered set both hold an accepted metric
\* under one name, the snapshot maps the name to a set's metric, not the static one.
C12_SetOverridesStatic ==
    \A t \in Threads, n \in Keys :
        (/\ pc[t] = "snap_ret"
         /\ metrics[n] # NoMetric
         /\ Accept(filter, n, metrics[n])
         /\ Offering(n) # {})
            => /\ Results(t)[n] # metrics[n]
               /\ \E r \in Offering(n) : Results(t)[n] = Offer(r, n)

\* A snapshot of a name bound in the static map and offered by a registered set.
C12_Witness ==
    \E t \in Threads, n \in Keys :
        /\ pc[t] = "snap_ret"
        /\ metrics[n] # NoMetric
        /\ Accept(filter, n, metrics[n])
        /\ Offering(n) # {}
        /\ Results(t)[n].id > 100

\* C13: a name bound in the static map stays bound: no step of any operation
\* takes a name out of the static map.
C13_StaticNamesNeverShrink ==
    [][\A n \in Keys : metrics[n] # NoMetric => metrics'[n] # NoMetric]_vars

\* A name that a returned snapshot already held is still bound when all calls are made.
C13_Witness ==
    \E t \in Threads, n \in Keys :
        /\ calls = MaxCalls
        /\ snapshot[t] # NoMap
        /\ maps[snapshot[t]][n].id \in Ids
        /\ metrics[n] # NoMetric

\* C14: unregister_metrics_set(r) returns without error, leaves the static map
\* and the filter as they are, and leaves every other registration as it is;
\* r has no entry afterwards, and when r had none the table is left unchanged.
C14_UnregisterRemovesOnlyItsName ==
    [][\A t \in Threads :
        (pc[t] = "unregister" /\ pc'[t] \notin {"unregister", "crashed"})
            => LET r == call[t].name
               IN  /\ pc'[t] = "idle"
                   /\ maps' = maps
                   /\ filter' = filter
                   /\ mset'[r] = NoSet
                   /\ \A q \in RegNames \ {r} : mset'[q] = mset[q]
                   /\ mset[r] = NoSet => (mset' = mset /\ msetOrder' = msetOrder)]_vars

\* One of two registered sets was unregistered; the other one is still registered.
C14_Witness ==
    \E r, q \in RegNames :
        /\ r # q
        /\ regLog[r].set # NoSet /\ ~regLog[r].live /\ mset[r] = NoSet
        /\ regLog[q].live /\ mset[q] = regLog[q].set
        /\ msetOrder = <<q>>

\* C15: a registration name holds at most one set, the one of its latest
\* register call: a snapshot takes every entry from the static map or from such
\* a set, never from a set that was replaced, and one unregister call leaves the
\* name with no set at all.
C15_OneSetPerRegistrationName ==
    /\ [](\A r \in RegNames :
            /\ mset[r] = IF regLog[r].live THEN regLog[r].set ELSE NoSet
            /\ Cardinality({i \in 1..Len(msetOrder) : msetOrder[i] = r})
                  = IF mset[r] # NoSet THEN 1 ELSE 0)
    /\ [](\A t \in Threads : pc[t] = "snap_ret" =>
            \A n \in KeysOf(Results(t)) :
                \/ Results(t)[n] = metrics[n]
                \/ \E r \in RegNames : Results(t)[n] = LoggedOffer(r, n))
    /\ [][\A t \in Threads : (pc[t] = "unregister" /\ pc'[t] = "idle")
            => /\ mset'[call[t].name] = NoSet
               /\ \A i \in 1..Len(msetOrder') : msetOrder'[i] # call[t].name]_vars

\* A snapshot taken after a set was replaced under its registration name: it has
\* no entry for a name that only the replaced set produces.
C15_Witness ==
    \E t \in Threads, r \in RegNames, n \in Keys :
        /\ pc[t] = "snap_ret"
        /\ regLog[r].live
        /\ regLog[r].old # NoSet
        /\ GetAll(regLog[r].old)[n] # NoMetric
        /\ GetAll(regLog[r].set)[n] = NoMetric
        /\ Results(t)[n] = NoMetric
        /\ \E k \in Keys : Results(t)[k] = GetAll(regLog[r].set)[k] /\ Results(t)[k] # NoMetric

\* C16: the lock is poisoned only by a thread that terminates abnormally while
\* it holds the write guard, and stays poisoned; from then on no thread holds a
\* guard, every call that asks for the lock fails, and no step changes a map,
\* hands out an instrument or returns a snapshot.
C16_PoisonedLockFailsEveryCall ==
    /\ [][(~poisoned /\ poisoned')
            => \E t \in Threads : writer = t /\ pc'[t] = "crashed"]_vars
    /\ [](poisoned =>
            /\ writer = 0 /\ readers = {}
            /\ \A t \in Threads :
                  pc[t] \in {"idle", "ret", "miss", "panicked", "poisoned", "crashed"})
    /\ [][poisoned =>
            /\ poisoned'
            /\ maps' = maps /\ mset' = mset /\ msetOrder' = msetOrder
            /\ \A t \in Threads :
                  /\ snapshot'[t] = snapshot[t]
                  /\ ret'[t] \in {ret[t], 0}
                  /\ pc'[t] # pc[t] =>
                        \/ pc[t] \in {"idle", "miss"} /\ pc'[t] = "poisoned"
                        \/ pc[t] = "ret" /\ pc'[t] = "idle"]_vars

\* A thread crashed inside a write section; another thread then called the
\* registry, whose static map has entries, and failed on the poisoned lock.
C16_Witness ==
    \E t, u \in Threads :
        /\ poisoned
        /\ pc[t] = "crashed"
        /\ pc[u] = "poisoned"
        /\ KeysOf(metrics) # {}

\* The places of a call where the thread reads under a read guard, and those
\* where it holds the write guard.
ReadSections == {"lookup", "snap_sets", "snap_ret"}
WriteSections == {"insert", "gauge", "register", "unregister"}

\* C17: a snapshots() call and the lookup of an accessor run under a read guard
\* only and change neither map; an accessor that finds its name bound to its
\* kind returns from the lookup without ever taking the write guard; the write
\* guard is taken only by an accessor whose lookup found no entry, by gauge and
\* by register_metrics_set and unregister_metrics_set.
C17_OnlyMissesAndWritersLockExclusively ==
    /\ [](\A t \in Threads :
            /\ pc[t] \in ReadSections => (t \in readers /\ writer # t)
            /\ writer = t => (pc[t] \in WriteSections /\ t \notin readers))
    /\ [][\A t \in Threads :
            /\ ((pc[t] \in ReadSections \/ pc'[t] \in ReadSections) /\ pc'[t] # pc[t])
                  => (metrics' = metrics /\ mset' = mset /\ msetOrder' = msetOrder
                      /\ writer' # t)
            /\ (/\ pc[t] = "lookup" /\ pc'[t] # "lookup"
                /\ metrics[call[t].name].kind = call[t].op)
                  => pc'[t] = "ret"
            /\ (pc'[t] = "miss" /\ pc[t] # "miss")
                  => (pc[t] = "lookup" /\ metrics[call[t].name] = NoMetric)
            /\ (writer' = t /\ writer # t)
                  => \/ pc[t] = "miss" /\ pc'[t] = "insert"
                     \/ pc[t] = "idle" /\ pc'[t] \in {"gauge", "register", "unregister"}]_vars

\* An accessor that will find its name bound to its kind and a snapshots() call
\* hold the lock together.
C17_Witness ==
    \E t, u \in Threads :
        /\ t # u
        /\ pc[t] = "lookup"
        /\ metrics[call[t].name].kind = call[t].op
        /\ pc[u] \in {"snap_sets", "snap_ret"}
        /\ readers = {t, u}
        /\ writer = 0

\* The instrument the latest insert under name n created (0: none).
LatestInstr(n) ==
    LET W == {i \in Ids : instr[i].name = n}
    IN  IF W = {} THEN 0 ELSE CHOOSE i \in W : \A j \in W : j <= i

\* C18: the static map binds a name to the instrument of the last insert made
\* for it, so after accessor calls raced on a name the last writer's instrument
\* is the bound one; an accessor call that finds the name returns that instrument.
C18_LastWriterWins ==
    /\ [](\A n \in StaticNames :
            metrics[n] = IF LatestInstr(n) = 0 THEN NoMetric
                         ELSE MetricOf(instr[LatestInstr(n)].kind, LatestInstr(n)))
    /\ [][\A t \in Threads :
            (pc[t] = "lookup" /\ pc'[t] = "ret")
                => /\ ret'[t] = LatestInstr(call[t].name)
                   /\ instr[ret'[t]].kind = call[t].op]_vars

\* Two accessor calls of one kind raced on a name, both returned and marked, and
\* a third call of that kind for the name returned the second instrument.
C18_Witness ==
    \E t \in Threads :
        /\ Len(instr) = 2
        /\ instr[1].name = instr[2].name
        /\ instr[1].kind = instr[2].kind
        /\ instr[1].kind # "Gauge"
        /\ instr[1].count = 1 /\ instr[2].count = 1
        /\ pc[t] = "ret"
        /\ call[t].name = instr[2].name
        /\ ret[t] = 2
        /\ metrics[instr[2].name] = MetricOf(instr[2].kind, 2)

\* The places of a call between its first lock acquisition and its return.
InCall == ReadSections \cup WriteSections \cup {"miss"}

\* C19: an accessor whose lookup missed holds no read guard while it waits for
\* the write guard, and only a thread inside a read or write section holds a
\* guard; again and again no thread is inside a call, so every call that has
\* entered the lock returns or fails, and the lock is then free for any call
\* that waits to enter.
C19_NoDeadlock ==
    /\ [](\A t \in Threads :
            /\ pc[t] = "miss" => (t \notin readers /\ writer # t)
            /\ t \in readers => pc[t] \in ReadSections
            /\ writer = t => pc[t] \in WriteSections)
    /\ [](writer \in Threads \cup {0} /\ readers \subseteq Threads)
    /\ []<>(\A t \in Threads : pc[t] \notin InCall)

\* A thread whose lookup missed waits, without a read guard, for the write
\* guard that the thread it raced with holds.
C19_Witness ==
    \E t, u \in Threads :
        /\ pc[t] = "miss"
        /\ pc[u] = "insert"
        /\ call[t].name = call[u].name
        /\ writer = u
        /\ readers = {}

\* C20: the panic of a kind mismatch happens under the read guard only: it
\* leaves the poison flag, the maps and the filter as they are and releases the
\* read guard, so the lock is poisoned only if some thread crashed inside a
\* write section, and other threads can still take the lock.
C20_KindMismatchDoesNotPoison ==
    /\ [][\A t \in Threads :
            (pc[t] = "lookup" /\ pc'[t] = "panicked")
                => /\ poisoned' = poisoned
                   /\ maps' = maps /\ mset' = mset /\ msetOrder' = msetOrder
                   /\ filter' = filter
                   /\ writer # t /\ writer' = writer
                   /\ readers' = readers \ {t}]_vars
    /\ [](\A t \in Threads : pc[t] = "panicked" => (t \notin readers /\ writer # t))
    /\ [](poisoned => \E t \in Threads : pc[t] = "crashed")

\* A thread panicked on a kind mismatch; afterwards another thread took the
\* write guard, which it could not have while the first held its read guard.
C20_Witness ==
    \E t, u \in Threads :
        /\ pc[t] = "panicked"
        /\ pc[u] \in WriteSections
        /\ writer = u
        /\ ~poisoned

====
